---------------------------- MODULE Spec2Model ----------------------------
(***************************************************************************)
(* Model of api/index.py: the tier resolver (get_user_tier), the usage     *)
(* gate (check_and_increment_usage on the process-wide usage_tracker) and  *)
(* the two request handlers that use them (analyze_image, check_usage).    *)
(*                                                                         *)
(* Strings whose characters the code inspects (the plan label and the tier *)
(* label) are sequences of one-character strings, so that lower() and the  *)
(* `in` substring test are computed.  JSON values of the decoded token are *)
(* tagged records: [t |-> "absent"] (key missing), [t |-> "null"],         *)
(* [t |-> "str", s |-> chars] and [t |-> "map", ...].                      *)
(***************************************************************************)
EXTENDS Integers, Sequences, FiniteSets, TLC

\* Number of request slots (requests the process serves in one behaviour).
NumReq == 2

Requests == 1 .. NumReq

\* Values of the `sub` claim.
Users == {"u1", "u2"}

-----------------------------------------------------------------------------
(* Configuration constants, index.py lines 49-52 *)

ALLOWED_EXTENSIONS == {".jpg", ".jpeg", ".png", ".webp"}

MAX_FILE_SIZE == 5 * 1024 * 1024

PREMIUM_PLAN_KEY == <<"p","r","e","m","i","u","m","_","v","i","s","i","o","n">>

FREE_TIER_LIMIT == 1

-----------------------------------------------------------------------------
(* Python string operations used by get_user_tier *)

UpperLetters ==
    <<"A","B","C","D","E","F","G","H","I","J","K","L","M",
      "N","O","P","Q","R","S","T","U","V","W","X","Y","Z">>

LowerLetters ==
    <<"a","b","c","d","e","f","g","h","i","j","k","l","m",
      "n","o","p","q","r","s","t","u","v","w","x","y","z">>

\* str.lower() on one character.
LowerChar(c) ==
    IF \E i \in DOMAIN UpperLetters : UpperLetters[i] = c
    THEN LowerLetters[CHOOSE i \in DOMAIN UpperLetters : UpperLetters[i] = c]
    ELSE c

\* str.lower()
Lower(s) == [i \in DOMAIN s |-> LowerChar(s[i])]

\* `needle in hay` on strings: needle occurs as a contiguous substring.
Contains(hay, needle) ==
    \E i \in 0 .. (Len(hay) - Len(needle)) :
        SubSeq(hay, i + 1, i + Len(needle)) = needle

-----------------------------------------------------------------------------
(* JSON values of the decoded token *)

Absent == [t |-> "absent"]

Null == [t |-> "null"]

Str(chars) == [t |-> "str", s |-> chars]

\* the `subscription` object, with its `plan` entry (Absent: no such key)
SubscriptionMap(plan) == [t |-> "map", plan |-> plan]

\* the `public_metadata` object, with its `tier` entry (Absent: no such key)
MetadataMap(tier) == [t |-> "map", tier |-> tier]

\* the decoded token: `sub`, `subscription`, `public_metadata`
Token(sub, subscription, metadata) ==
    [sub |-> sub, subscription |-> subscription, public_metadata |-> metadata]

\* the default {} of decoded_token.get("subscription", {})
EmptySubscription == SubscriptionMap(Absent)

\* the default {} of decoded_token.get("public_metadata", {})
EmptyMetadata == MetadataMap(Absent)

\* the default "" of .get("plan", "") and .get("tier", "")
EmptyStr == Str(<< >>)

\* dict.get(key, default) on the value `entry` stored under the key: the
\* default is returned only when the key is missing; a stored null is returned.
DictGet(entry, default) == IF entry.t = "absent" THEN default ELSE entry

\* == on JSON values where the right side is a string: values of another
\* type compare unequal, they do not raise.
PyEqStr(v, chars) == v.t = "str" /\ v.s = chars

Premium == <<"p","r","e","m","i","u","m">>

\* `tier == "premium"`, line 93
TierIsPremium(tier) == PyEqStr(tier, Premium)

\* `PREMIUM_PLAN_KEY in plan.lower()`, line 93 (plan is a string here)
PlanIsPremium(plan) == Contains(Lower(plan.s), PREMIUM_PLAN_KEY)

\* get_user_tier: "premium", "free", or "raise" when an AttributeError leaves
\* the function (x.get on a value that is no mapping, plan.lower() on a value
\* that is no string).
get_user_tier(decoded_token) ==
    LET subscription == DictGet(decoded_token.subscription, EmptySubscription)
    IN  IF subscription.t # "map" THEN "raise"          \* line 83
        ELSE
        LET plan == DictGet(subscription.plan, EmptyStr)
            public_metadata ==
                DictGet(decoded_token.public_metadata, EmptyMetadata)
        IN  IF public_metadata.t # "map" THEN "raise"   \* line 90
            ELSE
            LET tier == DictGet(public_metadata.tier, EmptyStr)
            IN  IF plan.t # "str" THEN "raise"          \* line 93, plan.lower()
                ELSE IF PlanIsPremium(plan) \/ TierIsPremium(tier)
                     THEN "premium"
                     ELSE "free"

-----------------------------------------------------------------------------
(* Inputs *)

PremiumVisionAnnual ==
    <<"P","r","e","m","i","u","m","_","V","i","s","i","o","n",
      "_","A","n","n","u","a","l">>

\* Tokens the authentication guard hands to the handlers: no signal at all,
\* a premium plan label, a premium metadata tier, and a null `subscription`.
SessionTokens ==
    { Token(u, Absent, Absent) : u \in Users }
    \cup { Token(u, SubscriptionMap(Str(PremiumVisionAnnual)), Absent) : u \in Users }
    \cup { Token(u, Absent, MetadataMap(Str(Premium))) : u \in Users }
    \cup { Token(u, Null, Absent) : u \in Users }

\* Path(file.filename).suffix.lower() of the uploads, line 120
Extensions == ALLOWED_EXTENSIONS \cup {".gif", ""}

\* len(file_content) of the uploads, line 128
FileSizes == {0, MAX_FILE_SIZE, MAX_FILE_SIZE + 1}

-----------------------------------------------------------------------------
(* State *)

VARIABLES
    usage_tracker,  \* line 55: the dict, a function from the users with an entry
    loop,           \* the request whose coroutine runs on the event loop, 0: none
    pc,             \* per request: where its handler stands
    kind,           \* per request: "analyze" | "usage" | "none" (not yet routed)
    user_id,        \* per request: local user_id
    tier,           \* per request: local tier, "none" until assigned
    current_usage,  \* per request: local current_usage of the gate call
    allowed,        \* per request: what the gate call returned, "unset" before
    vision,         \* per request: the vision API call, "none" | "ok" | "failed"
    status,         \* per request: HTTP status of the response, 0: none yet
    analyses_used,  \* per request: `analyses_used` of the usage report
    limit,          \* per request: `limit` of the usage report
    decoded,        \* the token of the get_user_tier call under test
    resolved        \* its outcome, "none" before the call

vars ==
    <<usage_tracker, loop, pc, kind, user_id, tier, current_usage, allowed,
      vision, status, analyses_used, limit, decoded, resolved>>

\* usage_tracker.get(user, 0)
Count(tracker, u) == IF u \in DOMAIN tracker THEN tracker[u] ELSE 0

\* tracker[user] = n
Put(tracker, u, n) ==
    [x \in DOMAIN tracker \cup {u} |-> IF x = u THEN n ELSE tracker[x]]

\* the value of `limit` in the usage report, line 200
LimitInt(n) == [t |-> "int", n |-> n]

LimitUnlimited == [t |-> "str", s |-> "unlimited"]

Init ==
    /\ usage_tracker = << >>
    /\ loop = 0
    /\ pc = [r \in Requests |-> "idle"]
    /\ kind = [r \in Requests |-> "none"]
    /\ user_id = [r \in Requests |-> "none"]
    /\ tier = [r \in Requests |-> "none"]
    /\ current_usage = [r \in Requests |-> 0]
    /\ allowed = [r \in Requests |-> "unset"]
    /\ vision = [r \in Requests |-> "none"]
    /\ status = [r \in Requests |-> 0]
    /\ analyses_used = [r \in Requests |-> 0]
    /\ limit = [r \in Requests |-> Absent]
    /\ decoded = Token("u1", Absent, Absent)
    /\ resolved = "none"

-----------------------------------------------------------------------------
(* Scheduling.  analyze_image is `async def`: its coroutine runs on the one
   event-loop thread and gives the thread up only at `await file.read()`
   (line 127); the OpenAI client call (line 142) is synchronous.  check_usage
   is `def`: the framework runs it on a worker thread, outside the loop. *)

\* a preemptive host: a coroutine may start or resume while another runs
LoopPreempted == TRUE

\* a coroutine may start or resume only when no coroutine is running
LoopFree == loop = 0

-----------------------------------------------------------------------------
(* check_and_increment_usage, lines 57-67 *)

\* the mutant counts premium users like free ones
GateNeverPremium(t) == FALSE

\* line 58
GateIsPremium(t) == t = "premium"

\* the mutant lets a user at the limit through
OverLimit(used) == used > FREE_TIER_LIMIT

\* line 63
AtLimit(used) == used >= FREE_TIER_LIMIT

\* the mutant forgets to count the consumption
NotIncremented(used) == used

\* line 66: current_usage + 1
Incremented(used) == used + 1

-----------------------------------------------------------------------------
(* analyze_image, lines 110-192 *)

\* the mutant goes on to the vision call although the gate denied
IgnoreQuotaExceeded(r) ==
    /\ pc' = [pc EXCEPT ![r] = "a_vision"]
    /\ UNCHANGED <<status, loop>>

\* lines 134-138: raise HTTPException(429), re-raised by line 185
RaiseQuotaExceeded(r) ==
    /\ pc' = [pc EXCEPT ![r] = "done"]
    /\ status' = [status EXCEPT ![r] = 429]
    /\ loop' = 0

\* the mutant refunds the consumption when the vision call fails
TrackerRolledBack(r) ==
    IF tier[r] = "free" /\ user_id[r] \in DOMAIN usage_tracker
    THEN [usage_tracker EXCEPT ![user_id[r]] = @ - 1]
    ELSE usage_tracker

\* lines 187-192: the handler of a failed vision call leaves the dict alone
TrackerAfterFailure(r) == usage_tracker

\* lines 115-127: user_id, tier, the extension check, up to `await file.read()`
A_Begin(r) ==
    /\ pc[r] = "idle"
    /\ LoopFree
    /\ \E tok \in SessionTokens, file_ext \in Extensions :
        LET t == get_user_tier(tok)
        IN  /\ kind' = [kind EXCEPT ![r] = "analyze"]
            /\ user_id' = [user_id EXCEPT ![r] = tok.sub]
            /\ IF t = "raise"
               THEN \* line 187: except Exception -> 500
                    /\ status' = [status EXCEPT ![r] = 500]
                    /\ pc' = [pc EXCEPT ![r] = "done"]
                    /\ UNCHANGED tier
               ELSE /\ tier' = [tier EXCEPT ![r] = t]
                    /\ IF file_ext \notin ALLOWED_EXTENSIONS
                       THEN \* line 122
                            /\ status' = [status EXCEPT ![r] = 400]
                            /\ pc' = [pc EXCEPT ![r] = "done"]
                       ELSE \* line 127: suspended in file.read()
                            /\ pc' = [pc EXCEPT ![r] = "a_read"]
                            /\ UNCHANGED status
    /\ UNCHANGED <<usage_tracker, loop, current_usage, allowed, vision,
                   analyses_used, limit, decoded, resolved>>

\* the mutant charges the user before it looks at the size
A_ResumeChargeFirst(r) ==
    /\ pc[r] = "a_read"
    /\ LoopFree
    /\ \E size \in FileSizes :
        /\ usage_tracker' =
              IF tier[r] = "free" /\ ~AtLimit(Count(usage_tracker, user_id[r]))
              THEN Put(usage_tracker, user_id[r],
                       Count(usage_tracker, user_id[r]) + 1)
              ELSE usage_tracker
        /\ IF size > MAX_FILE_SIZE
           THEN /\ status' = [status EXCEPT ![r] = 413]
                /\ pc' = [pc EXCEPT ![r] = "done"]
                /\ UNCHANGED loop
           ELSE /\ pc' = [pc EXCEPT ![r] = "a_vision"]
                /\ loop' = r
                /\ UNCHANGED status
    /\ UNCHANGED <<kind, user_id, tier, current_usage, allowed, vision,
                   analyses_used, limit, decoded, resolved>>

\* lines 127-132: file.read() completes, the size check
A_Resume(r) ==
    /\ pc[r] = "a_read"
    /\ LoopFree
    /\ \E size \in FileSizes :
        IF size > MAX_FILE_SIZE
        THEN \* line 129
             /\ status' = [status EXCEPT ![r] = 413]
             /\ pc' = [pc EXCEPT ![r] = "done"]
             /\ UNCHANGED loop
        ELSE /\ pc' = [pc EXCEPT ![r] = "a_gate"]
             /\ loop' = r
             /\ UNCHANGED status
    /\ UNCHANGED <<usage_tracker, kind, user_id, tier, current_usage, allowed,
                   vision, analyses_used, limit, decoded, resolved>>

\* lines 134, 58-64: the gate call up to its read of the dict
A_GateCheck(r) ==
    /\ pc[r] = "a_gate"
    /\ IF GateIsPremium(tier[r])
       THEN \* line 59
            /\ allowed' = [allowed EXCEPT ![r] = "true"]
            /\ pc' = [pc EXCEPT ![r] = "a_vision"]
            /\ UNCHANGED <<current_usage, status, loop>>
       ELSE \* line 61
            /\ current_usage' =
                  [current_usage EXCEPT ![r] = Count(usage_tracker, user_id[r])]
            /\ IF AtLimit(current_usage'[r])
               THEN \* line 64
                    /\ allowed' = [allowed EXCEPT ![r] = "false"]
                    /\ RaiseQuotaExceeded(r)
               ELSE /\ pc' = [pc EXCEPT ![r] = "a_gate_inc"]
                    /\ UNCHANGED <<allowed, status, loop>>
    /\ UNCHANGED <<usage_tracker, kind, user_id, tier, vision, analyses_used,
                   limit, decoded, resolved>>

\* lines 66-67: the gate call's write of the dict, and its return
A_GateInc(r) ==
    /\ pc[r] = "a_gate_inc"
    /\ usage_tracker' =
          Put(usage_tracker, user_id[r], Incremented(current_usage[r]))
    /\ allowed' = [allowed EXCEPT ![r] = "true"]
    /\ pc' = [pc EXCEPT ![r] = "a_vision"]
    /\ UNCHANGED <<loop, kind, user_id, tier, current_usage, vision, status,
                   analyses_used, limit, decoded, resolved>>

\* lines 140-192: the vision API call and the response; the call, or the
\* reading of its result, may raise
A_Vision(r) ==
    /\ pc[r] = "a_vision"
    /\ \/ /\ vision' = [vision EXCEPT ![r] = "ok"]
          /\ status' = [status EXCEPT ![r] = 200]
          /\ UNCHANGED usage_tracker
       \/ /\ vision' = [vision EXCEPT ![r] = "failed"]
          /\ status' = [status EXCEPT ![r] = 500]
          /\ usage_tracker' = TrackerAfterFailure(r)
    /\ pc' = [pc EXCEPT ![r] = "done"]
    /\ loop' = 0
    /\ UNCHANGED <<kind, user_id, tier, current_usage, allowed, analyses_used,
                   limit, decoded, resolved>>

-----------------------------------------------------------------------------
(* check_usage, lines 195-213 *)

\* the mutant reads with setdefault, which creates the entry
TrackerAfterSetDefault(u) == Put(usage_tracker, u, Count(usage_tracker, u))

\* line 199: usage_tracker.get(user_id, 0) leaves the dict alone
TrackerAfterGet(u) == usage_tracker

\* lines 195-213, the whole handler: user_id, tier, the read of the dict and
\* the report (it touches shared state once, at line 199)
check_usage(r) ==
    /\ pc[r] = "idle"
    /\ \E tok \in SessionTokens :
        LET t == get_user_tier(tok)
        IN  /\ kind' = [kind EXCEPT ![r] = "usage"]
            /\ user_id' = [user_id EXCEPT ![r] = tok.sub]
            /\ pc' = [pc EXCEPT ![r] = "done"]
            /\ IF t = "raise"
               THEN \* line 208: except Exception -> 500
                    /\ status' = [status EXCEPT ![r] = 500]
                    /\ UNCHANGED <<tier, analyses_used, limit, usage_tracker>>
               ELSE /\ tier' = [tier EXCEPT ![r] = t]
                    /\ analyses_used' =
                          [analyses_used EXCEPT ![r] = Count(usage_tracker, tok.sub)]
                    /\ usage_tracker' = TrackerAfterGet(tok.sub)
                    /\ limit' = [limit EXCEPT ![r] =
                                    IF t = "premium" THEN LimitUnlimited
                                    ELSE LimitInt(FREE_TIER_LIMIT)]
                    /\ status' = [status EXCEPT ![r] = 200]
    /\ UNCHANGED <<loop, current_usage, allowed, vision, decoded, resolved>>

-----------------------------------------------------------------------------

Next ==
    \E r \in Requests :
        \/ A_Begin(r)
        \/ A_Resume(r)
        \/ A_GateCheck(r)
        \/ A_GateInc(r)
        \/ A_Vision(r)
        \/ check_usage(r)

Spec == Init /\ [][Next]_vars

-----------------------------------------------------------------------------
(* get_user_tier on its own: every shape of the token's two fields *)

PremiumVisionUpper ==
    <<"P","R","E","M","I","U","M","_","V","I","S","I","O","N">>

PlanStems ==
    { << >>,
      PREMIUM_PLAN_KEY,
      PremiumVisionUpper,
      SubSeq(PremiumVisionAnnual, 1, 14),
      SubSeq(PREMIUM_PLAN_KEY, 1, 13),
      Premium \o <<" ">> \o SubSeq(PREMIUM_PLAN_KEY, 9, 14),
      Premium }

PlanPrefixes == { << >>, <<"x">>, <<"P","r","o","_">> }

PlanSuffixes == { << >>, <<"n">>, <<"_","A","n","n","u","a","l">> }

PlanLabels ==
    { a \o b \o c : a \in PlanPrefixes, b \in PlanStems, c \in PlanSuffixes }

TierLabels ==
    { Premium,
      <<"P","r","e","m","i","u","m">>,
      <<"P","R","E","M","I","U","M">>,
      Premium \o <<" ">>,
      <<"f","r","e","e">>,
      << >>,
      PREMIUM_PLAN_KEY }

SubscriptionValues ==
    { Absent, Null, Str(PREMIUM_PLAN_KEY), SubscriptionMap(Absent),
      SubscriptionMap(Null) }
    \cup { SubscriptionMap(Str(p)) : p \in PlanLabels }

MetadataValues ==
    { Absent, Null, Str(Premium), MetadataMap(Absent), MetadataMap(Null) }
    \cup { MetadataMap(Str(t)) : t \in TierLabels }

AllClaims ==
    { Token("u1", s, m) : s \in SubscriptionValues, m \in MetadataValues }

TierInit ==
    /\ usage_tracker = << >>
    /\ loop = 0
    /\ pc = [r \in Requests |-> "idle"]
    /\ kind = [r \in Requests |-> "none"]
    /\ user_id = [r \in Requests |-> "none"]
    /\ tier = [r \in Requests |-> "none"]
    /\ current_usage = [r \in Requests |-> 0]
    /\ allowed = [r \in Requests |-> "unset"]
    /\ vision = [r \in Requests |-> "none"]
    /\ status = [r \in Requests |-> 0]
    /\ analyses_used = [r \in Requests |-> 0]
    /\ limit = [r \in Requests |-> Absent]
    /\ decoded \in AllClaims
    /\ resolved = "none"

\* one call get_user_tier(decoded)
ResolveTier ==
    /\ resolved = "none"
    /\ resolved' = get_user_tier(decoded)
    /\ UNCHANGED <<usage_tracker, loop, pc, kind, user_id, tier, current_usage,
                   allowed, vision, status, analyses_used, limit, decoded>>

TierNext == ResolveTier

TierSpec == TierInit /\ [][TierNext]_vars

-----------------------------------------------------------------------------
(* Properties *)

\* the premium signals as the token states them
PlanSignal(tok) ==
    /\ tok.subscription.t = "map"
    /\ tok.subscription.plan.t = "str"
    /\ Contains(Lower(tok.subscription.plan.s), PREMIUM_PLAN_KEY)

TierSignal(tok) ==
    /\ tok.public_metadata.t = "map"
    /\ tok.public_metadata.tier.t = "str"
    /\ tok.public_metadata.tier.s = Premium

\* every field the resolver reads is missing or of its documented type
WellTyped(tok) ==
    /\ tok.subscription.t \in {"absent", "map"}
    /\ tok.subscription.t = "map" => tok.subscription.plan.t \in {"absent", "str"}
    /\ tok.public_metadata.t \in {"absent", "map"}

\* the free-tier gate call of request r returns in this step
FreeGateReturns(r) ==
    /\ tier[r] = "free"
    /\ allowed[r] = "unset"
    /\ allowed'[r] # "unset"

\* request r was charged and its vision call then failed
FailedAfterCharge(r) ==
    /\ tier[r] = "free"
    /\ allowed[r] = "true"
    /\ vision[r] = "failed"

\* C1: of the analyze requests of one fresh free-tier user whose gate call has
\* returned, however their handlers interleave, exactly one was allowed and
\* all the others were denied.
C1_ExactlyOneAllowed ==
    \A u \in Users :
        LET returned == { r \in Requests :
                            /\ user_id[r] = u
                            /\ tier[r] = "free"
                            /\ allowed[r] # "unset" }
            granted == { r \in returned : allowed[r] = "true" }
        IN  returned # {} => Cardinality(granted) = 1

\* C1 witness: two requests of one free-tier user are in flight at once, one
\* allowed and before its vision call, the other suspended in file.read().
C1_Witness ==
    \E r1, r2 \in Requests :
        /\ r1 # r2
        /\ user_id[r1] = user_id[r2]
        /\ tier[r1] = "free" /\ tier[r2] = "free"
        /\ allowed[r1] = "true" /\ pc[r1] = "a_vision"
        /\ pc[r2] = "a_read"

\* C2: a free-tier gate call returns true exactly when the stored count (0 if
\* absent) is below FREE_TIER_LIMIT and then stores the old count plus 1;
\* otherwise it returns false and leaves the dict as it was.
C2_FreeGateContract ==
    [][\A r \in Requests :
          FreeGateReturns(r) =>
              LET used == Count(usage_tracker, user_id[r])
              IN  IF used < FREE_TIER_LIMIT
                  THEN /\ allowed'[r] = "true"
                       /\ usage_tracker' = Put(usage_tracker, user_id[r], used + 1)
                  ELSE /\ allowed'[r] = "false"
                       /\ usage_tracker' = usage_tracker]_vars

\* C2 witness: a user's first call returned true, the following one false,
\* and the count is 1.
C2_Witness ==
    \E r1, r2 \in Requests :
        /\ user_id[r1] = user_id[r2]
        /\ tier[r1] = "free" /\ tier[r2] = "free"
        /\ allowed[r1] = "true" /\ current_usage[r1] = 0
        /\ allowed[r2] = "false" /\ current_usage[r2] = 1
        /\ Count(usage_tracker, user_id[r1]) = 1

\* C3: a premium gate call returns true and leaves the whole dict unchanged,
\* whatever the user's stored count.
C3_PremiumGate ==
    [][\A r \in Requests :
          (tier[r] = "premium" /\ pc[r] = "a_gate" /\ pc'[r] # "a_gate") =>
              /\ allowed'[r] = "true"
              /\ usage_tracker' = usage_tracker]_vars

\* C3 witness: a premium call was allowed for a user whose count is at the
\* limit.
C3_Witness ==
    \E r \in Requests :
        /\ tier[r] = "premium" /\ allowed[r] = "true" /\ pc[r] = "a_vision"
        /\ Count(usage_tracker, user_id[r]) = FREE_TIER_LIMIT

\* C4: a user's count never decreases and its entry is never deleted; the
\* count reaches the limit only by an allowed free-tier consumption of that
\* user; at the limit it stays there and every free-tier gate call of the
\* user returns false.
C4_UsageLifecycle ==
    [][\A u \in Users :
          /\ Count(usage_tracker', u) >= Count(usage_tracker, u)
          /\ u \in DOMAIN usage_tracker => u \in DOMAIN usage_tracker'
          /\ (Count(usage_tracker, u) < FREE_TIER_LIMIT
                /\ Count(usage_tracker', u) >= FREE_TIER_LIMIT) =>
                 \E r \in Requests :
                     /\ user_id[r] = u
                     /\ FreeGateReturns(r)
                     /\ allowed'[r] = "true"
          /\ Count(usage_tracker, u) = FREE_TIER_LIMIT =>
                 /\ Count(usage_tracker', u) = FREE_TIER_LIMIT
                 /\ \A r \in Requests :
                        (user_id[r] = u /\ FreeGateReturns(r)) =>
                            allowed'[r] = "false"]_vars

\* C4 witness: a user at the limit was denied.
C4_Witness ==
    \E r \in Requests :
        /\ tier[r] = "free"
        /\ allowed[r] = "false"
        /\ Count(usage_tracker, user_id[r]) = FREE_TIER_LIMIT

\* C5: get_user_tier never raises, and resolves to free when the token holds
\* no readable premium signal.
C5_NeverRaises ==
    resolved # "none" =>
        /\ resolved \in {"premium", "free"}
        /\ (~PlanSignal(decoded) /\ ~TierSignal(decoded)) => resolved = "free"

\* C6: for every token get_user_tier returns premium exactly when the
\* lower-cased plan contains premium_vision or the metadata tier is exactly
\* "premium", and free otherwise.
C6_PremiumIffSignal ==
    resolved # "none" =>
        resolved = IF PlanSignal(decoded) \/ TierSignal(decoded)
                   THEN "premium"
                   ELSE "free"

\* C6 on the tokens whose fields are missing or of their documented types:
\* there the resolver returns, and the equivalence holds.
PremiumIffSignalWhenWellTyped ==
    (resolved # "none" /\ WellTyped(decoded)) =>
        resolved = IF PlanSignal(decoded) \/ TierSignal(decoded)
                   THEN "premium"
                   ELSE "free"

\* C7: once a charged free-tier request has failed in its vision call (500),
\* the user's count is the incremented one, and it stays: every later
\* free-tier gate call of the user returns false.
C7_NoRollback ==
    [][\A r \in Requests :
          FailedAfterCharge(r)' =>
              /\ status'[r] = 500
              /\ Count(usage_tracker', user_id'[r]) = current_usage'[r] + 1
              /\ \A r2 \in Requests :
                     (user_id[r2] = user_id'[r] /\ FreeGateReturns(r2)) =>
                         allowed'[r2] = "false"]_vars

\* C7 witness: a charged request failed with 500 and the same user's other
\* request was denied.
C7_Witness ==
    \E r, r2 \in Requests :
        /\ FailedAfterCharge(r)
        /\ status[r] = 500
        /\ user_id[r2] = user_id[r]
        /\ tier[r2] = "free"
        /\ allowed[r2] = "false"

\* C8: a request's vision call starts only after its own gate call returned
\* true; a gate call that returns false ends the request with 429, without a
\* vision call and without a change of the dict.
C8_VisionOnlyAfterGate ==
    [][\A r \in Requests :
          /\ (pc[r] # "a_vision" /\ pc'[r] = "a_vision") => allowed'[r] = "true"
          /\ (vision[r] = "none" /\ vision'[r] # "none") => allowed[r] = "true"
          /\ (allowed[r] = "unset" /\ allowed'[r] = "false") =>
                 /\ status'[r] = 429
                 /\ pc'[r] = "done"
                 /\ usage_tracker' = usage_tracker
          /\ allowed[r] = "false" =>
                 (vision'[r] = "none" /\ status'[r] = 429 /\ pc'[r] = "done")]_vars

\* C8 witness: one request was denied with 429 and made no vision call,
\* another made its vision call after being allowed.
C8_Witness ==
    \E r1, r2 \in Requests :
        /\ allowed[r1] = "false" /\ status[r1] = 429 /\ vision[r1] = "none"
        /\ allowed[r2] = "true" /\ vision[r2] = "ok"

\* C9: a usage query leaves the dict unchanged and, when the tier resolves,
\* reports the stored count (0 without an entry) and the limit of the tier:
\* FREE_TIER_LIMIT for free, "unlimited" for premium.
C9_UsageQueryIsPureRead ==
    [][\A r \in Requests :
          (kind[r] = "none" /\ kind'[r] = "usage") =>
              /\ usage_tracker' = usage_tracker
              /\ tier'[r] \in {"free", "premium"} =>
                     /\ status'[r] = 200
                     /\ analyses_used'[r] = Count(usage_tracker, user_id'[r])
                     /\ tier'[r] = "free" => limit'[r] = LimitInt(FREE_TIER_LIMIT)
                     /\ tier'[r] = "premium" => limit'[r] = LimitUnlimited]_vars

\* C9 witness: a free-tier query of an unseen user reported used 0, limit 1,
\* and the user still has no entry, while another user has one.
C9_Witness ==
    \E r \in Requests :
        /\ kind[r] = "usage" /\ tier[r] = "free" /\ status[r] = 200
        /\ analyses_used[r] = 0 /\ limit[r] = LimitInt(1)
        /\ user_id[r] \notin DOMAIN usage_tracker
        /\ DOMAIN usage_tracker # {}

\* C10: a request rejected with 400 or 413 never called the gate and left the
\* dict as it was.
C10_RejectedUploadNotCharged ==
    [][\A r \in Requests :
          (status[r] = 0 /\ status'[r] \in {400, 413}) =>
              /\ allowed'[r] = "unset"
              /\ usage_tracker' = usage_tracker]_vars

\* C10 witness: after a free-tier user's upload was rejected, the same user's
\* next request is allowed its one analysis.
C10_Witness ==
    \E r1, r2 \in Requests :
        /\ user_id[r1] = user_id[r2]
        /\ tier[r1] = "free" /\ status[r1] \in {400, 413}
        /\ tier[r2] = "free" /\ pc[r2] = "a_vision"
        /\ allowed[r2] = "true" /\ current_usage[r2] = 0

=============================================================================
